---- MODULE Spec2Model ----
(***************************************************************************)
(* A model of gopls' go.mod diagnostics (internal/lsp/mod/diagnostics.go)  *)
(* and of its bug-reporting facility (gopls/internal/bug/bug.go).          *)
(***************************************************************************)
EXTENDS Integers, Sequences, FiniteSets, TLC

\* package bug
VARIABLES
  mu,         \* sync.Mutex: 0 when free, else the goroutine holding it
  exemplars,  \* map[string]Bug
  waiters,    \* []chan<- Bug, as indices into chans
  chans,      \* every channel made by Notify: its buffer
  pc,         \* each goroutine's position
  local,      \* each goroutine's locals in report: bug, loop index
  calls,      \* calls made so far (bounded by MaxCalls)
  nbugs,      \* history: reports that have acquired mu, in order
  regAt,      \* history: per channel, nbugs when Notify appended it
  sentLog     \* history: per channel, every bug ever sent on it

bugVars == <<mu, exemplars, waiters, chans, pc, local, calls, nbugs, regAt, sentLog>>

\* package mod: Diagnostics, SuggestedFixes
VARIABLES
  modFile,      \* snapshot.View().ModFile(): "" when there is no go.mod
  files,        \* what snapshot.GetFile answers for each URI
  mthErr,       \* the error snapshot.ModTidyHandle returns
  tidyErr,      \* the error mth.Tidy returns
  diagnostics,  \* the []source.Error mth.Tidy returns
  diags,        \* the []protocol.Diagnostic passed to SuggestedFixes
  ret           \* what the call returned

modVars == <<modFile, files, mthErr, tidyErr, diagnostics, diags, ret>>

\* package mod: ExtractGoCommandError
VARIABLES
  loadErr,     \* loadErr.Error(), the text of the go command's error
  parseErr,    \* the error of snapshot.ParseModHandle or of pmh.Parse
  parsed,      \* the *modfile.File that pmh.Parse returns
  badOffsets,  \* the byte offsets m.Converter.ToPosition rejects
  v            \* ExtractGoCommandError's local v, a module.Version

locVars == <<loadErr, parseErr, parsed, badOffsets, v>>

otherThanBug == <<modVars, locVars>>

vars == <<bugVars, modVars, locVars>>

(***************************************************************************)
(* Part I.  package bug: Notify and report.                                *)
(***************************************************************************)

\* Bounds of the model: goroutines, and calls they make in total.
NumProcs == 2
MaxCalls == 3

\* var PanicOnBugs = false
PanicOnBugs == FALSE

\* make(chan Bug, 1)
ChanCap == 1

Procs == 1..NumProcs
Keys == {"a.go:10", "b.go:20"}
Descriptions == {"d1", "d2"}


NoBug == [Key |-> "", Description |-> "", id |-> 0]

InitBugVars ==
  /\ mu = 0
  /\ exemplars = <<>>
  /\ waiters = <<>>
  /\ chans = <<>>
  /\ pc = [p \in Procs |-> "idle"]
  /\ local = [p \in Procs |-> [bug |-> NoBug, i |-> 0]]
  /\ calls = 0
  /\ nbugs = 0
  /\ regAt = <<>>
  /\ sentLog = <<>>

\* report, lines 63-80: the key of the call site, the panic when PanicOnBugs,
\* the Bug value.  Report, Reportf and Errorf all reach report the same way.
CallReport(p) ==
  /\ pc[p] = "idle"
  /\ calls < MaxCalls
  /\ \E k \in Keys, d \in Descriptions :
       /\ local' = [local EXCEPT ![p] = [bug |-> [Key |-> k, Description |-> d, id |-> 0], i |-> 0]]
       /\ pc' = [pc EXCEPT ![p] = IF PanicOnBugs THEN "panicked" ELSE "report_lock"]
  /\ calls' = calls + 1
  /\ UNCHANGED <<mu, exemplars, waiters, chans, nbugs, regAt, sentLog>>
  /\ UNCHANGED otherThanBug

\* mu.Lock() in report
ReportLock(p) ==
  /\ pc[p] = "report_lock"
  /\ mu = 0
  /\ mu' = p
  /\ nbugs' = nbugs + 1
  /\ local' = [local EXCEPT ![p].bug.id = nbugs + 1]
  /\ pc' = [pc EXCEPT ![p] = "report_exemplar"]
  /\ UNCHANGED <<exemplars, waiters, chans, calls, regAt, sentLog>>
  /\ UNCHANGED otherThanBug

\* capture one exemplar per key
ExemplarsAfter(ex, bug) ==
  IF bug.Key \in DOMAIN ex THEN ex ELSE ex @@ (bug.Key :> bug)

ReportExemplar(p) ==
  /\ pc[p] = "report_exemplar"
  /\ exemplars' = ExemplarsAfter(exemplars, local[p].bug)
  /\ local' = [local EXCEPT ![p].i = 1]
  /\ pc' = [pc EXCEPT ![p] = "report_send"]
  /\ UNCHANGED <<mu, waiters, chans, calls, nbugs, regAt, sentLog>>
  /\ UNCHANGED otherThanBug

\* waiter <- bug: a send on a buffered channel proceeds only with room in the buffer
ReportSend(p) ==
  /\ pc[p] = "report_send"
  /\ local[p].i <= Len(waiters)
  /\ LET c == waiters[local[p].i] IN
       /\ Len(chans[c]) < ChanCap
       /\ chans' = [chans EXCEPT ![c] = Append(@, local[p].bug)]
       /\ sentLog' = [sentLog EXCEPT ![c] = Append(@, local[p].bug)]
  /\ local' = [local EXCEPT ![p].i = @ + 1]
  /\ UNCHANGED <<mu, exemplars, waiters, pc, calls, nbugs, regAt>>
  /\ UNCHANGED otherThanBug

WaitersKept(ws) == ws

\* waiters = nil
WaitersAfterReport(ws) == <<>>

ReportClear(p) ==
  /\ pc[p] = "report_send"
  /\ local[p].i > Len(waiters)
  /\ waiters' = WaitersAfterReport(waiters)
  /\ pc' = [pc EXCEPT ![p] = "report_unlock"]
  /\ UNCHANGED <<mu, exemplars, chans, local, calls, nbugs, regAt, sentLog>>
  /\ UNCHANGED otherThanBug

\* defer mu.Unlock() in report
ReportUnlock(p) ==
  /\ pc[p] = "report_unlock"
  /\ mu' = 0
  /\ pc' = [pc EXCEPT ![p] = "idle"]
  /\ UNCHANGED <<exemplars, waiters, chans, local, calls, nbugs, regAt, sentLog>>
  /\ UNCHANGED otherThanBug

CallNotify(p) ==
  /\ pc[p] = "idle"
  /\ calls < MaxCalls
  /\ calls' = calls + 1
  /\ pc' = [pc EXCEPT ![p] = "notify_lock"]
  /\ UNCHANGED <<mu, exemplars, waiters, chans, local, nbugs, regAt, sentLog>>
  /\ UNCHANGED otherThanBug

\* mu.Lock() in Notify
NotifyLock(p) ==
  /\ pc[p] = "notify_lock"
  /\ mu = 0
  /\ mu' = p
  /\ pc' = [pc EXCEPT ![p] = "notify_append"]
  /\ UNCHANGED <<exemplars, waiters, chans, local, calls, nbugs, regAt, sentLog>>
  /\ UNCHANGED otherThanBug

\* ch := make(chan Bug, 1); waiters = append(waiters, ch)
NotifyAppend(p) ==
  /\ pc[p] = "notify_append"
  /\ chans' = Append(chans, <<>>)
  /\ waiters' = Append(waiters, Len(chans) + 1)
  /\ regAt' = Append(regAt, nbugs)
  /\ sentLog' = Append(sentLog, <<>>)
  /\ pc' = [pc EXCEPT ![p] = "notify_unlock"]
  /\ UNCHANGED <<mu, exemplars, local, calls, nbugs>>
  /\ UNCHANGED otherThanBug

\* defer mu.Unlock() in Notify; return ch
NotifyUnlock(p) ==
  /\ pc[p] = "notify_unlock"
  /\ mu' = 0
  /\ pc' = [pc EXCEPT ![p] = "idle"]
  /\ UNCHANGED <<exemplars, waiters, chans, local, calls, nbugs, regAt, sentLog>>
  /\ UNCHANGED otherThanBug

\* The holder of a channel Notify returned receives from it.
Recv(c) ==
  /\ c \in 1..Len(chans)
  /\ chans[c] # <<>>
  /\ chans' = [chans EXCEPT ![c] = Tail(@)]
  /\ UNCHANGED <<mu, exemplars, waiters, pc, local, calls, nbugs, regAt, sentLog>>
  /\ UNCHANGED otherThanBug

\* The steps of a call in progress.
StepBug(p) ==
  \/ ReportLock(p)
  \/ ReportExemplar(p)
  \/ ReportSend(p)
  \/ ReportClear(p)
  \/ ReportUnlock(p)
  \/ NotifyLock(p)
  \/ NotifyAppend(p)
  \/ NotifyUnlock(p)


(***************************************************************************)
(* Part II.  package mod: Diagnostics and SuggestedFixes.                  *)
(***************************************************************************)

\* Bounds of the model: errors one Tidy reports, diagnostics the caller passes.
MaxErrors == 2
MaxDiags == 2

SeqsUpTo(S, n) == UNION {[1..k -> S] : k \in 0..n}

\* error values; Nil is a nil error
Nil == <<>>
ErrTmpModfileUnsupported == <<"ErrTmpModfileUnsupported">>
ErrModTidyHandle == <<"ModTidyHandle failed">>
ErrTidy == <<"Tidy failed">>
ErrGetFile(uri) == <<"GetFile failed", uri>>

URIs == {"go.mod", "a.go"}
Messages == {"m1", "m2"}
Categories == {"syntax", "go mod tidy"}

Pos(l, c) == [Line |-> l, Character |-> c]
Rng(s, e) == [Start |-> s, End |-> e]
Ranges == {Rng(Pos(0, 0), Pos(0, 5)), Rng(Pos(0, 0), Pos(1, 0))}

\* source.SuggestedFix: Title, and Edits, a map from URI to []TextEdit
Fix1 == [Title |-> "t1", Edits |-> ("go.mod" :> <<"edit1">>)]
Fix2 == [Title |-> "t2", Edits |-> ("go.mod" :> <<"edit2">>) @@ ("a.go" :> <<"edit3">>)]
FixLists == {<<>>, <<Fix1>>, <<Fix1, Fix2>>}


NoRet == [op |-> "none"]

\* snapshot.GetFile(ctx, uri)
GetFile(uri) ==
  IF files[uri].ok
    THEN [err |-> Nil, fh |-> [URI |-> uri, Version |-> files[uri].Version]]
    ELSE [err |-> ErrGetFile(uri), fh |-> [URI |-> uri, Version |-> 0]]

\* fh.Identity()
Identity(fh) == [URI |-> fh.URI, Version |-> fh.Version]

SeverityOfSwapped(category) == IF category = "syntax" THEN "Warning" ELSE "Error"

\* lines 57-61
SeverityOf(category) == IF category = "syntax" THEN "Error" ELSE "Warning"

\* lines 52-61
ToDiag(e) ==
  [Message |-> e.Message, Range |-> e.Range, Source |-> e.Category,
   Severity |-> SeverityOf(e.Category)]

\* reports[id] = append(reports[id], diag)
AppendReport(reports, id, diag) ==
  IF id \in DOMAIN reports
    THEN [reports EXCEPT ![id] = Append(@, diag)]
    ELSE reports @@ (id :> <<diag>>)

NoInitialReports(fh) == <<>>

\* reports := map[source.FileIdentity][]*source.Diagnostic{fh.Identity(): {}}
InitialReports(fh) == (Identity(fh) :> <<>>)

\* for _, e := range diagnostics { ... }, lines 51-67
RECURSIVE DiagnosticsLoop(_, _)
DiagnosticsLoop(es, reports) ==
  IF es = <<>> THEN [err |-> Nil, reports |-> reports]
  ELSE LET e == Head(es)
           diag == ToDiag(e)
           got == GetFile(e.URI)
       IN  IF got.err # Nil
             THEN [err |-> got.err, reports |-> <<>>]
             ELSE DiagnosticsLoop(Tail(es), AppendReport(reports, Identity(got.fh), diag))

IsUnsupportedNever(err) == FALSE

\* err == source.ErrTmpModfileUnsupported, lines 38 and 73
IsUnsupported(err) == err = ErrTmpModfileUnsupported

\* func Diagnostics: what it returns for the snapshot
DiagnosticsResult ==
  IF modFile = "" THEN [err |-> Nil, reports |-> <<>>]
  ELSE LET got == GetFile(modFile) IN
    IF got.err # Nil THEN [err |-> got.err, reports |-> <<>>]
    ELSE IF IsUnsupported(mthErr) THEN [err |-> Nil, reports |-> <<>>]
    ELSE IF mthErr # Nil THEN [err |-> mthErr, reports |-> <<>>]
    ELSE IF tidyErr # Nil THEN [err |-> tidyErr, reports |-> <<>>]
    ELSE DiagnosticsLoop(diagnostics, InitialReports(got.fh))

Diagnostics ==
  /\ ret = NoRet
  /\ LET r == DiagnosticsResult IN
       ret' = [op |-> "Diagnostics", err |-> r.err, reports |-> r.reports]
  /\ UNCHANGED <<modFile, files, mthErr, tidyErr, diagnostics, diags>>
  /\ UNCHANGED <<bugVars, locVars>>

\* protocol.ComparePosition
ComparePosition(a, b) ==
  IF a.Line < b.Line THEN -1
  ELSE IF a.Line > b.Line THEN 1
  ELSE IF a.Character < b.Character THEN -1
  ELSE IF a.Character > b.Character THEN 1
  ELSE 0

\* protocol.CompareRange
CompareRange(a, b) ==
  LET r == ComparePosition(a.Start, b.Start) IN
    IF r # 0 THEN r ELSE ComparePosition(a.End, b.End)

sameDiagnosticNoSource(d, e) ==
  d.Message = e.Message /\ CompareRange(d.Range, e.Range) = 0

\* func sameDiagnostic
sameDiagnostic(d, e) ==
  d.Message = e.Message /\ CompareRange(d.Range, e.Range) = 0 /\ d.Source = e.Category

\* lines 83-89: errorsMap, message -> the errors with that message, each held
\* here by its index in diagnostics
RECURSIVE ErrorsMapLoop(_, _)
ErrorsMapLoop(j, errorsMap) ==
  IF j > Len(diagnostics) THEN errorsMap
  ELSE LET e == diagnostics[j]
           m0 == IF e.Message \in DOMAIN errorsMap
                   THEN errorsMap
                   ELSE errorsMap @@ (e.Message :> <<>>)
       IN  ErrorsMapLoop(j + 1, [m0 EXCEPT ![e.Message] = Append(@, j)])

\* errorsMap[diag.Message]: nil for a missing key
ErrorsMapGet(errorsMap, msg) ==
  IF msg \in DOMAIN errorsMap THEN errorsMap[msg] ELSE <<>>

\* The orders in which one range over a map with key set S may visit its keys.
Orders(S) ==
  {o \in [1..Cardinality(S) -> S] : \A a, b \in 1..Cardinality(S) : a # b => o[a] # o[b]}

RECURSIVE EditLoop(_, _, _)

EditFailureSkipped(fix, order, changes) == EditLoop(fix, Tail(order), changes)

\* lines 105-107: return nil, err
EditFailure(fix, order, changes) ==
  [err |-> GetFile(Head(order)).err, changes |-> <<>>]

\* lines 103-117: for uri, edits := range fix.Edits, visiting the keys in `order`
EditLoop(fix, order, changes) ==
  IF order = <<>> THEN [err |-> Nil, changes |-> changes]
  ELSE LET uri == Head(order)
           got == GetFile(uri)
       IN  IF got.err # Nil
             THEN EditFailure(fix, order, changes)
             ELSE EditLoop(fix, Tail(order),
                    Append(changes, [URI |-> got.fh.URI, Version |-> got.fh.Version,
                                     Edits |-> fix.Edits[uri]]))

\* lines 97-117: the action built for one fix, for every order of the map range.
\* `from` records which diagnostic, error and fix the action was built from.
FixOutcomes(diag, fix, from) ==
  { LET r == EditLoop(fix, o, <<>>) IN
      [err |-> r.err,
       action |-> [Title |-> fix.Title, Kind |-> "quickfix", Diagnostics |-> <<diag>>,
                   Edit |-> [DocumentChanges |-> r.changes], from |-> from]]
    : o \in Orders(DOMAIN fix.Edits) }

PrependAction(actions, action) == <<action>> \o actions

\* actions = append(actions, action)
AppendAction(actions, action) == Append(actions, action)

\* lines 96-119: for _, fix := range e.SuggestedFixes
RECURSIVE FixLoop(_, _, _, _)
FixLoop(i, j, k, actions) ==
  IF k > Len(diagnostics[j].SuggestedFixes) THEN {[err |-> Nil, actions |-> actions]}
  ELSE UNION { IF o.err # Nil
                 THEN {[err |-> o.err, actions |-> <<>>]}
                 ELSE FixLoop(i, j, k + 1, AppendAction(actions, o.action))
               : o \in FixOutcomes(diags[i], diagnostics[j].SuggestedFixes[k], <<i, j, k>>) }

\* lines 92-120: for _, e := range errorsMap[diag.Message]
RECURSIVE ErrorLoop(_, _, _, _)
ErrorLoop(i, cands, n, actions) ==
  IF n > Len(cands) THEN {[err |-> Nil, actions |-> actions]}
  ELSE IF ~sameDiagnostic(diags[i], diagnostics[cands[n]])
    THEN ErrorLoop(i, cands, n + 1, actions)
    ELSE UNION { IF r.err # Nil THEN {r} ELSE ErrorLoop(i, cands, n + 1, r.actions)
                 : r \in FixLoop(i, cands[n], 1, actions) }

\* lines 91-121: for _, diag := range diags
RECURSIVE DiagLoop(_, _, _)
DiagLoop(i, errorsMap, actions) ==
  IF i > Len(diags) THEN {[err |-> Nil, actions |-> actions]}
  ELSE UNION { IF r.err # Nil THEN {r} ELSE DiagLoop(i + 1, errorsMap, r.actions)
               : r \in ErrorLoop(i, ErrorsMapGet(errorsMap, diags[i].Message), 1, actions) }

\* func SuggestedFixes: everything it may return for the snapshot and diags
SuggestedFixesResults ==
  IF IsUnsupported(mthErr) THEN {[err |-> Nil, actions |-> <<>>]}
  ELSE IF mthErr # Nil THEN {[err |-> mthErr, actions |-> <<>>]}
  ELSE IF tidyErr # Nil THEN {[err |-> tidyErr, actions |-> <<>>]}
  ELSE DiagLoop(1, ErrorsMapLoop(1, <<>>), <<>>)

SuggestedFixes ==
  /\ ret = NoRet
  /\ \E r \in SuggestedFixesResults :
       ret' = [op |-> "SuggestedFixes", err |-> r.err, actions |-> r.actions]
  /\ UNCHANGED <<modFile, files, mthErr, tidyErr, diagnostics, diags>>
  /\ UNCHANGED <<bugVars, locVars>>

\* The snapshots and arguments the calls are checked on.
FileVersion == ("go.mod" :> 3) @@ ("a.go" :> 7)
FileStates == {f \in [URIs -> [ok : BOOLEAN, Version : {3, 7}]] :
                 \A u \in URIs : f[u].Version = FileVersion[u]}
Errors(fixLists) ==
  [Message : Messages, Range : Ranges, Category : Categories, URI : URIs,
   SuggestedFixes : fixLists]
\* the diagnostic of the first message, range and category, and the three that
\* differ from it in one field
KeyPool ==
  {k \in [Message : Messages, Range : Ranges, Source : Categories] :
     Cardinality({f \in {"Message", "Range", "Source"} :
        k[f] # [Message |-> "m1", Range |-> Rng(Pos(0, 0), Pos(0, 5)), Source |-> "syntax"][f]}) <= 1}
DiagPool == {[Message |-> k.Message, Range |-> k.Range, Source |-> k.Source,
              Severity |-> "Warning"] : k \in KeyPool}
\* an error of each key with two fixes, and the first key also with one and none
FixErrorPool ==
  {e \in Errors(FixLists) :
     /\ e.URI = "go.mod"
     /\ [Message |-> e.Message, Range |-> e.Range, Source |-> e.Category] \in KeyPool
     /\ \/ Len(e.SuggestedFixes) = 2
        \/ (e.Message = "m1" /\ e.Range = Rng(Pos(0, 0), Pos(0, 5)) /\ e.Category = "syntax")}

\* Tidy is reached only with a handle, and reports errors only when it succeeds.
TidyOutcomes(pool) ==
  /\ mthErr \in {Nil, ErrTmpModfileUnsupported, ErrModTidyHandle}
  /\ tidyErr \in {Nil, ErrTidy}
  /\ mthErr # Nil => tidyErr = Nil
  /\ diagnostics \in SeqsUpTo(pool, MaxErrors)
  /\ (mthErr # Nil \/ tidyErr # Nil) => diagnostics = <<>>


(***************************************************************************)
(* Part III.  package mod: ExtractGoCommandError.                          *)
(*                                                                         *)
(* A text is a sequence of atoms: the characters "@", ":", " ", "\t", "\n" *)
(* and words, each word a maximal run of other characters.                 *)
(***************************************************************************)

\* Bounds of the model: atoms of an error text, statements of a go.mod.
MaxLen == 4
MaxStmts == 2

Words == {"example.com", "v1.2.2", "foo"}
Chars == {"@", ":"}
Space == {" ", "\n", "\t", "\r"}

Elems(s) == {s[i] : i \in 1..Len(s)}

\* strings.Split(s, sep)
RECURSIVE SplitLoop(_, _, _, _)
SplitLoop(s, sep, cur, out) ==
  IF s = <<>> THEN Append(out, cur)
  ELSE IF Head(s) = sep
    THEN SplitLoop(Tail(s), sep, <<>>, Append(out, cur))
    ELSE SplitLoop(Tail(s), sep, Append(cur, Head(s)), out)

Split(s, sep) == SplitLoop(s, sep, <<>>, <<>>)

\* strings.TrimSpace(s)
RECURSIVE TrimLeft(_)
TrimLeft(s) == IF s # <<>> /\ Head(s) \in Space THEN TrimLeft(Tail(s)) ELSE s

RECURSIVE TrimRight(_)
TrimRight(s) ==
  IF s # <<>> /\ s[Len(s)] \in Space THEN TrimRight(SubSeq(s, 1, Len(s) - 1)) ELSE s

TrimSpace(s) == TrimRight(TrimLeft(s))

\* where the greedy (.*) of the pattern stops: the last "@" it can give back
LastIndex(s, a) ==
  IF a \in Elems(s)
    THEN CHOOSE i \in 1..Len(s) : s[i] = a /\ \A j \in (i + 1)..Len(s) : s[j] # a
    ELSE 0

\* moduleAtVersionRe.FindStringSubmatch(s), for the pattern (.*)@(.*): the
\* leftmost match, and "." matches no newline, so the match lies in the first
\* line of s that holds an "@"; <<>> is the nil of no match
FindStringSubmatch(s) ==
  LET lines == Split(s, "\n")
      withAt == {n \in 1..Len(lines) : "@" \in Elems(lines[n])}
  IN  IF withAt = {} THEN <<>>
      ELSE LET line == lines[CHOOSE n \in withAt : \A m \in withAt : n <= m]
               at == LastIndex(line, "@")
           IN  <<line, SubSeq(line, 1, at - 1), SubSeq(line, at + 1, Len(line))>>

\* module.Check(path, version) of golang.org/x/mod, on the words of this model:
\* a module path has a dot in its first element and only path characters, a
\* version is canonical semver
ValidPaths == {"example.com", "example.org", "v1.2.2", "github.com/cockroachdb/apd/v2"}
ValidVersions == {"v1.2.2", "v2.0.72"}
Check(path, version) ==
  /\ Len(path) = 1 /\ path[1] \in ValidPaths
  /\ Len(version) = 1 /\ version[1] \in ValidVersions

ModuleVersion(path, version) == [Path |-> path, Version |-> version]

RECURSIVE TokenLoop(_, _)

TokenLoopNoBreak(segs, v0) == TokenLoop(Tail(segs), v0)

\* lines 151-153: break
TokenFound(segs, v1) == v1

\* lines 143-154: for _, s := range strings.Split(loadErr.Error(), ":")
TokenLoop(segs, v0) ==
  IF segs = <<>> THEN v0
  ELSE LET s == TrimSpace(Head(segs))
           match == FindStringSubmatch(s)
       IN  IF match = <<>> \/ Len(match) < 3
             THEN TokenLoop(Tail(segs), v0)
             ELSE LET v1 == ModuleVersion(match[2], match[3]) IN
                    IF Check(v1.Path, v1.Version)
                      THEN TokenFound(segs, v1)
                      ELSE TokenLoop(Tail(segs), v1)

\* m.Converter.ToPosition(offset), for a file of 20-byte lines
ToPosition(offset) ==
  IF offset \in badOffsets
    THEN [err |-> <<"ToPosition failed">>, pos |-> Pos(0, 0)]
    ELSE [err |-> Nil, pos |-> Pos(offset \div 20, offset % 20)]

\* func rangeFromPositions
rangeFromPositions(s, e) ==
  LET start == ToPosition(s.Byte) IN
    IF start.err # Nil THEN [err |-> start.err, rng |-> Rng(Pos(0, 0), Pos(0, 0))]
    ELSE LET end == ToPosition(e.Byte) IN
      IF end.err # Nil THEN [err |-> end.err, rng |-> Rng(Pos(0, 0), Pos(0, 0))]
      ELSE [err |-> Nil, rng |-> Rng(start.pos, end.pos)]

NoDiag == [Message |-> <<>>, Range |-> Rng(Pos(0, 0), Pos(0, 0)), Severity |-> ""]

\* the closure toDiagnostic, lines 163-173
toDiagnostic(line) ==
  LET r == rangeFromPositions(line.Start, line.End) IN
    IF r.err # Nil THEN [err |-> r.err, diag |-> NoDiag]
    ELSE [err |-> Nil,
          diag |-> [Message |-> loadErr, Range |-> r.rng, Severity |-> "Error"]]

\* fmt.Errorf("no diagnostics for %v", loadErr)
NoDiagnosticsFor(text) == <<"no diagnostics for">> \o text

\* lines 188-194: for _, rep := range parsed.Replace, then the final return
RECURSIVE ReplaceLoop(_, _)
ReplaceLoop(n, tok) ==
  IF n > Len(parsed.Replace) THEN [err |-> NoDiagnosticsFor(loadErr), diag |-> NoDiag]
  ELSE IF parsed.Replace[n].New # tok /\ parsed.Replace[n].Old # tok
    THEN ReplaceLoop(n + 1, tok)
    ELSE toDiagnostic(parsed.Replace[n].Syntax)

\* lines 182-187: for _, ex := range parsed.Exclude
RECURSIVE ExcludeLoop(_, _)
ExcludeLoop(n, tok) ==
  IF n > Len(parsed.Exclude) THEN ReplaceLoop(1, tok)
  ELSE IF parsed.Exclude[n].Mod # tok
    THEN ExcludeLoop(n + 1, tok)
    ELSE toDiagnostic(parsed.Exclude[n].Syntax)

\* lines 176-181: for _, req := range parsed.Require
RECURSIVE RequireLoop(_, _)
RequireLoop(n, tok) ==
  IF n > Len(parsed.Require) THEN ExcludeLoop(1, tok)
  ELSE IF parsed.Require[n].Mod # tok
    THEN RequireLoop(n + 1, tok)
    ELSE toDiagnostic(parsed.Require[n].Syntax)

\* a search that looks at the replace statements before the others
RECURSIVE ReplaceFirstLoop(_, _)
ReplaceFirstLoop(n, tok) ==
  IF n > Len(parsed.Replace) THEN RequireLoop(1, tok)
  ELSE IF parsed.Replace[n].New # tok /\ parsed.Replace[n].Old # tok
    THEN ReplaceFirstLoop(n + 1, tok)
    ELSE toDiagnostic(parsed.Replace[n].Syntax)

FindStatementReplaceFirst(tok) == ReplaceFirstLoop(1, tok)

\* lines 174-194: the require, exclude and replace statements, in that order
FindStatement(tok) == RequireLoop(1, tok)

ZeroVersion == ModuleVersion(<<>>, <<>>)

\* func ExtractGoCommandError
ExtractGoCommandError ==
  /\ ret = NoRet
  /\ v' = TokenLoop(Split(loadErr, ":"), ZeroVersion)
  /\ LET r == IF parseErr # Nil THEN [err |-> parseErr, diag |-> NoDiag]
              ELSE FindStatement(v')
     IN  ret' = [op |-> "ExtractGoCommandError", err |-> r.err, diag |-> r.diag]
  /\ UNCHANGED <<loadErr, parseErr, parsed, badOffsets>>
  /\ UNCHANGED <<modFile, files, mthErr, tidyErr, diagnostics, diags>>
  /\ UNCHANGED bugVars

\* The error texts and go.mod files the call is checked on.
Atoms == Words \cup Chars
Texts(n) ==
  {t \in SeqsUpTo(Atoms, n) : \A i \in 1..(Len(t) - 1) : ~(t[i] \in Words /\ t[i + 1] \in Words)}

\* the two examples of the comment at lines 134-137
ExampleText ==
  <<"err", ":", " ", "exit", " ", "status", " ", "1", ":", " ", "stderr", ":", " ",
    "go", ":", " ", "example.com", "@", "v1.2.2", ":", " ", "reading", " ",
    "example.com/", "@", "v/v1.2.2.mod", ":", " ", "no", " ", "such", " ", "file",
    " ", "or", " ", "directory">>
ExampleText2 ==
  <<"exit", " ", "status", " ", "1", ":", " ", "go", ":", " ",
    "github.com/cockroachdb/apd/v2", "@", "v2.0.72", ":", " ", "reading", " ",
    "github.com/cockroachdb/apd/go.mod", " ", "at", " ", "revision", " ", "v2.0.72",
    ":", " ", "unknown", " ", "revision", " ", "v2.0.72">>
\* a segment of two lines, each with a module@version, before another segment
TwoLineText ==
  <<"go", ":", " ", "example.com", "@", "v1.2.2", "\n", "\t", "foo", "@", "v1.2.2",
    ":", " ", "example.org", "@", "v1.2.2">>
\* texts with white space and line breaks around and inside the segments
ExampleTexts ==
  { ExampleText, ExampleText2, TwoLineText,
    <<"go", ":", " ", "foo", "@", "v1.2.2", ":", " ", "unknown", " ", "revision">>,
    <<"go", ":", "\n", "\t", "example.com", "@", "v1.2.2", " ", "\n">>,
    <<"example.com", "@", "v1.2.2", "\n", "@">>,
    <<"@", "\n", "example.com", "@", "v1.2.2">>,
    <<"foo", "\n", "example.com", "@", "v1.2.2", "\n", "foo">>,
    <<"go", ":", " ", "example.com", "@", "v1.2.2", " ", "requires", "\n", "\t",
      "example.org", "@", "v1.2.2", ":", " ", "reading">> }

Mod(p, ver) == ModuleVersion(IF p = "" THEN <<>> ELSE <<p>>, IF ver = "" THEN <<>> ELSE <<ver>>)
\* go.mod statements: modfile checks versions, not module paths, and a replace
\* may name a module with no version
Statements ==
  { [kind |-> "require", Mod |-> Mod("example.com", "v1.2.2")],
    [kind |-> "require", Mod |-> Mod("foo", "v1.2.2")],
    [kind |-> "exclude", Mod |-> Mod("example.com", "v1.2.2")],
    [kind |-> "replace", Old |-> Mod("example.com", "v1.2.2"), New |-> Mod("../foo", "")],
    [kind |-> "replace", Old |-> Mod("foo", ""), New |-> Mod("example.com", "v1.2.2")] }

\* modfile.Parse: the statements of each kind in file order, statement k on
\* line k of the file
Syntax(k) == [Start |-> [Byte |-> 20 * (k - 1)], End |-> [Byte |-> 20 * (k - 1) + 10]]
RECURSIVE OfKind(_, _, _)
OfKind(stmts, k, kind) ==
  IF k > Len(stmts) THEN <<>>
  ELSE (IF stmts[k].kind # kind THEN <<>>
        ELSE IF kind = "replace"
          THEN <<[Old |-> stmts[k].Old, New |-> stmts[k].New, Syntax |-> Syntax(k)]>>
          ELSE <<[Mod |-> stmts[k].Mod, Syntax |-> Syntax(k)]>>)
       \o OfKind(stmts, k + 1, kind)
ParseFile(stmts) ==
  [Require |-> OfKind(stmts, 1, "require"),
   Exclude |-> OfKind(stmts, 1, "exclude"),
   Replace |-> OfKind(stmts, 1, "replace")]

\* none, or the end of the first statement and the start of the second
BadOffsetSets == {{}, {10, 20}}

IdleBug == InitBugVars

IdleLoc ==
  /\ loadErr = <<>>
  /\ parseErr = Nil
  /\ parsed = ParseFile(<<>>)
  /\ badOffsets = {}
  /\ v = ZeroVersion

InitDiag ==
  /\ IdleBug
  /\ IdleLoc
  /\ modFile \in {"", "go.mod"}
  /\ files \in FileStates
  /\ TidyOutcomes(Errors({<<>>}))
  /\ diags = <<>>
  /\ ret = NoRet

InitFix ==
  /\ IdleBug
  /\ IdleLoc
  /\ modFile = "go.mod"
  /\ files \in FileStates
  /\ TidyOutcomes(FixErrorPool)
  /\ diags \in SeqsUpTo(DiagPool, MaxDiags)
  /\ ret = NoRet


InitLoc ==
  /\ IdleBug
  /\ modFile = "go.mod"
  /\ files = [u \in URIs |-> [ok |-> TRUE, Version |-> FileVersion[u]]]
  /\ mthErr = Nil
  /\ tidyErr = Nil
  /\ diagnostics = <<>>
  /\ diags = <<>>
  /\ ret = NoRet
  /\ loadErr \in Texts(MaxLen) \cup ExampleTexts
  /\ parseErr \in {Nil, <<"ParseModHandle failed">>, <<"Parse failed">>}
  /\ \E stmts \in SeqsUpTo(Statements, MaxStmts) : parsed = ParseFile(stmts)
  /\ parseErr # Nil => parsed = ParseFile(<<>>)
  /\ badOffsets \in BadOffsetSets
  /\ parseErr # Nil => badOffsets = {}
  /\ v = ZeroVersion

InitMod == InitDiag \/ InitFix

NextMod ==
  \/ Diagnostics
  \/ SuggestedFixes

SpecMod == InitMod /\ [][NextMod]_vars

NextLoc == ExtractGoCommandError

SpecLoc == InitLoc /\ [][NextLoc]_vars


(***************************************************************************)
(* Properties of Diagnostics and SuggestedFixes, under SpecMod.            *)
(***************************************************************************)

IdentityOf(uri) == [URI |-> uri, Version |-> files[uri].Version]

\* Diagnostics returned a map built from an analysis: not an error, and not
\* one of the two empty successes.
DiagnosticsSucceeded ==
  /\ ret.op = "Diagnostics"
  /\ ret.err = Nil
  /\ modFile # ""
  /\ mthErr # ErrTmpModfileUnsupported

\* C1: when Diagnostics succeeds on a manifest, the keys of the map it returns
\* are exactly the identity of the manifest and the identities of the files the
\* analysis errors name; the manifest's key is there, with an empty list, even
\* when no error is reported against the manifest.
C1_KeysAreManifestAndErrorFiles ==
  DiagnosticsSucceeded =>
    /\ DOMAIN ret.reports =
         {IdentityOf(modFile)} \cup {IdentityOf(diagnostics[j].URI) : j \in 1..Len(diagnostics)}
    /\ (\A j \in 1..Len(diagnostics) : diagnostics[j].URI # modFile)
         => ret.reports[IdentityOf(modFile)] = <<>>

\* Every error is against another file: the manifest's key is present and empty.
C1_Witness ==
  /\ DiagnosticsSucceeded
  /\ Len(diagnostics) = 2
  /\ \A j \in 1..Len(diagnostics) : diagnostics[j].URI = "a.go"
  /\ Cardinality(DOMAIN ret.reports) = 2
  /\ ret.reports[IdentityOf(modFile)] = <<>>

C9_Expected(e) ==
  [Message |-> e.Message, Range |-> e.Range, Source |-> e.Category,
   Severity |-> IF e.Category = "syntax" THEN "Error" ELSE "Warning"]

C9_ErrorsOn(uri) == SelectSeq(diagnostics, LAMBDA e : e.URI = uri)

\* C9: Diagnostics emits exactly one diagnostic per analysis error, of severity
\* Error iff the category is "syntax" and Warning otherwise, with Source the
\* category and Message and Range those of the error; the list of each file
\* holds the diagnostics of that file's errors in the order of the analysis.
C9_OneDiagnosticPerErrorInOrder ==
  DiagnosticsSucceeded =>
    \A id \in DOMAIN ret.reports :
      LET es == C9_ErrorsOn(id.URI) IN
        /\ Len(ret.reports[id]) = Len(es)
        /\ \A n \in 1..Len(es) : ret.reports[id][n] = C9_Expected(es[n])

\* Two errors of different categories and messages against one file.
C9_Witness ==
  /\ DiagnosticsSucceeded
  /\ Len(diagnostics) = 2
  /\ diagnostics[1].URI = diagnostics[2].URI
  /\ diagnostics[1].Category = "go mod tidy"
  /\ diagnostics[2].Category = "syntax"
  /\ diagnostics[1].Message # diagnostics[2].Message
  /\ diagnostics[1].Range # diagnostics[2].Range
  /\ Len(ret.reports[IdentityOf(diagnostics[1].URI)]) = 2

\* C3, as claimed: with no manifest, or with a toolchain that reports the
\* unsupported condition, the result is empty and there is no error, whatever
\* GetFile answers.
C3_InapplicableAlwaysEmpty ==
  /\ (ret.op = "Diagnostics" /\ (modFile = "" \/ mthErr = ErrTmpModfileUnsupported))
       => (ret.err = Nil /\ DOMAIN ret.reports = {})
  /\ (ret.op = "SuggestedFixes" /\ mthErr = ErrTmpModfileUnsupported)
       => (ret.err = Nil /\ ret.actions = <<>>)

\* C3, amended: Diagnostics resolves the manifest before it asks for the tidy
\* handle, so the unsupported condition gives its empty success only when the
\* manifest resolved; when it did not, GetFile's error is returned.  With no
\* manifest Diagnostics is empty, and SuggestedFixes is empty whenever the
\* toolchain reports the unsupported condition.
C3_InapplicableEmptyOnceManifestResolves ==
  /\ (ret.op = "Diagnostics" /\ modFile = "")
       => (ret.err = Nil /\ DOMAIN ret.reports = {})
  /\ (ret.op = "Diagnostics" /\ modFile # "" /\ files[modFile].ok
        /\ mthErr = ErrTmpModfileUnsupported)
       => (ret.err = Nil /\ DOMAIN ret.reports = {})
  /\ (ret.op = "Diagnostics" /\ modFile # "" /\ ~files[modFile].ok)
       => (ret.err = ErrGetFile(modFile) /\ DOMAIN ret.reports = {})
  /\ (ret.op = "SuggestedFixes" /\ mthErr = ErrTmpModfileUnsupported)
       => (ret.err = Nil /\ ret.actions = <<>>)

\* The toolchain is unsupported, the manifest resolves and another file would not.
C3_Witness ==
  /\ ret.op = "Diagnostics"
  /\ modFile = "go.mod"
  /\ mthErr = ErrTmpModfileUnsupported
  /\ files["go.mod"].ok
  /\ ~files["a.go"].ok
  /\ ret.err = Nil
  /\ DOMAIN ret.reports = {}

\* SuggestedFixes returned actions computed from an analysis.
FixesSucceeded ==
  /\ ret.op = "SuggestedFixes"
  /\ ret.err = Nil
  /\ mthErr = Nil
  /\ tidyErr = Nil

\* the join of the claim: message, range and source against category
JoinKey(d, e) ==
  /\ d.Message = e.Message
  /\ CompareRange(d.Range, e.Range) = 0
  /\ d.Source = e.Category

\* <<i, j, k>>: diagnostic i of diags joins error j of the analysis, which has a fix k
Joined ==
  UNION { {<<p[1], p[2], k>> : k \in 1..Len(diagnostics[p[2]].SuggestedFixes)}
          : p \in {q \in (1..Len(diags)) \X (1..Len(diagnostics)) :
                     JoinKey(diags[q[1]], diagnostics[q[2]])} }

FixOf(t) == diagnostics[t[2]].SuggestedFixes[t[3]]

\* C2: when SuggestedFixes succeeds, it returns an action for fix k of error j
\* iff some input diagnostic has the message, a range comparing equal and, as
\* its source, the category of error j; the action has the title of that fix and
\* carries that diagnostic.  A diagnostic that joins no error yields nothing.
C2_ActionIffSameDiagnostic ==
  FixesSucceeded =>
    /\ {ret.actions[n].from : n \in 1..Len(ret.actions)} = Joined
    /\ \A n \in 1..Len(ret.actions) :
         LET a == ret.actions[n] IN
           /\ a.Title = FixOf(a.from).Title
           /\ a.Kind = "quickfix"
           /\ a.Diagnostics = <<diags[a.from[1]]>>

\* The first diagnostic joins an error with a fix; the second differs from that
\* error in its source alone and joins nothing.
C2_Witness ==
  /\ FixesSucceeded
  /\ Len(diags) = 2
  /\ Len(diagnostics) = 1
  /\ Len(diagnostics[1].SuggestedFixes) = 1
  /\ JoinKey(diags[1], diagnostics[1])
  /\ diags[2].Message = diags[1].Message
  /\ diags[2].Range = diags[1].Range
  /\ diags[2].Source # diags[1].Source
  /\ Len(ret.actions) = 1

\* a file that a fix of a joined error touches and that does not resolve
UnresolvedTouched ==
  {u \in URIs : ~files[u].ok /\ \E t \in Joined : u \in DOMAIN FixOf(t).Edits}

\* C4: when a file touched by a fix of a joined error does not resolve,
\* SuggestedFixes returns GetFile's error and no action; and every action it
\* returns has one document change for each file of its fix's edits, and no
\* other, with the version and the edits of that file.
C4_AllFilesOfAFixOrNoAction ==
  (ret.op = "SuggestedFixes" /\ mthErr = Nil /\ tidyErr = Nil) =>
    /\ UnresolvedTouched # {} =>
         /\ ret.actions = <<>>
         /\ ret.err \in {ErrGetFile(u) : u \in UnresolvedTouched}
    /\ \A n \in 1..Len(ret.actions) :
         LET a == ret.actions[n]
             edits == FixOf(a.from).Edits
             changes == a.Edit.DocumentChanges
         IN  /\ Len(changes) = Cardinality(DOMAIN edits)
             /\ {changes[c].URI : c \in 1..Len(changes)} = DOMAIN edits
             /\ \A c \in 1..Len(changes) :
                  /\ changes[c].Version = files[changes[c].URI].Version
                  /\ changes[c].Edits = edits[changes[c].URI]

\* A joined error has a one-file fix that resolves and then a two-file fix, one
\* file of which does not: the call fails and returns no action.
C4_Witness ==
  /\ ret.op = "SuggestedFixes"
  /\ mthErr = Nil /\ tidyErr = Nil
  /\ files["go.mod"].ok
  /\ ~files["a.go"].ok
  /\ \E t \in Joined : t[3] = 2 /\ DOMAIN FixOf(t).Edits = {"go.mod", "a.go"}
  /\ ret.err = ErrGetFile("a.go")
  /\ ret.actions = <<>>

LexLess(s, t) ==
  \/ s[1] < t[1]
  \/ s[1] = t[1] /\ s[2] < t[2]
  \/ s[1] = t[1] /\ s[2] = t[2] /\ s[3] < t[3]

\* C8: the actions SuggestedFixes returns are ordered by input diagnostic, then
\* by joined error in analysis order, then by fix, and none is dropped as a
\* duplicate: there are as many actions as there are fixes of joined errors,
\* counted once for each diagnostic and error that join.
C8_OrderedAndNotDeduplicated ==
  FixesSucceeded =>
    /\ \A n, m \in 1..Len(ret.actions) :
         n < m => LexLess(ret.actions[n].from, ret.actions[m].from)
    /\ Len(ret.actions) = Cardinality(Joined)

\* Two diagnostics, and two errors with the message, range and category of both
\* of them, each with fixes: every pair contributes its actions.
C8_Witness ==
  /\ FixesSucceeded
  /\ Len(diags) = 2
  /\ Len(diagnostics) = 2
  /\ \A i, j \in 1..2 : JoinKey(diags[i], diagnostics[j])
  /\ Len(diagnostics[1].SuggestedFixes) = 2
  /\ Len(diagnostics[2].SuggestedFixes) = 1
  /\ Len(ret.actions) = 6
  /\ ret.actions[1].Title # ret.actions[2].Title

(***************************************************************************)
(* Properties of ExtractGoCommandError, under SpecLoc.                     *)
(***************************************************************************)

Extracted == ret.op = "ExtractGoCommandError"

\* the colon-separated segments of the error text, trimmed
Segments == LET segs == Split(loadErr, ":") IN [n \in 1..Len(segs) |-> TrimSpace(segs[n])]

\* C5, as claimed: when no segment of the error text yields a module@version
\* candidate that module.Check accepts, nothing in a go.mod that parses matches
\* the token (the claim takes it to be the zero module.Version), so the call
\* fails with "no diagnostics": it returns no diagnostic and no other error.
C5_NoValidCandidateGivesNoDiagnostics ==
  (/\ Extracted
   /\ parseErr = Nil
   /\ \A n \in 1..Len(Segments) :
        LET match == FindStringSubmatch(Segments[n]) IN
          match = <<>> \/ ~Check(match[2], match[3]))
    => ret.err = NoDiagnosticsFor(loadErr)

Min(S) == CHOOSE n \in S : \A m \in S : n <= m

\* the statement the claim anchors the diagnostic at: 0 lines when there is none
C6_Anchor ==
  LET req == {n \in 1..Len(parsed.Require) : parsed.Require[n].Mod = v}
      ex == {n \in 1..Len(parsed.Exclude) : parsed.Exclude[n].Mod = v}
      rep == {n \in 1..Len(parsed.Replace) :
                parsed.Replace[n].New = v \/ parsed.Replace[n].Old = v}
  IN  IF req # {} THEN <<parsed.Require[Min(req)].Syntax>>
      ELSE IF ex # {} THEN <<parsed.Exclude[Min(ex)].Syntax>>
      ELSE IF rep # {} THEN <<parsed.Replace[Min(rep)].Syntax>>
      ELSE <<>>

\* C6: the diagnostic is anchored at the first require statement whose module
\* is the extracted token; when there is none, at the first such exclude; when
\* there is none, at the first replace whose new or old module is the token.
\* A require wins over an exclude or a replace wherever they stand in the file.
C6_RequireThenExcludeThenReplace ==
  (Extracted /\ parseErr = Nil) =>
    IF C6_Anchor = <<>> THEN ret.err = NoDiagnosticsFor(loadErr)
    ELSE LET line == C6_Anchor[1] IN
      IF {line.Start.Byte, line.End.Byte} \cap badOffsets # {}
        THEN ret.err = <<"ToPosition failed">>
        ELSE /\ ret.err = Nil
             /\ ret.diag.Range.Start = Pos(line.Start.Byte \div 20, line.Start.Byte % 20)
             /\ ret.diag.Range.End = Pos(line.End.Byte \div 20, line.End.Byte % 20)
             /\ ret.diag.Message = loadErr
             /\ ret.diag.Severity = "Error"

\* A replace on the first line and a require on the second name the token: the
\* diagnostic is on the second line.
C6_Witness ==
  /\ Extracted
  /\ ret.err = Nil
  /\ Len(parsed.Require) = 1 /\ Len(parsed.Replace) = 1
  /\ parsed.Require[1].Mod = v
  /\ parsed.Replace[1].Old = v
  /\ parsed.Replace[1].Syntax.Start.Byte < parsed.Require[1].Syntax.Start.Byte
  /\ ret.diag.Range.Start.Line = 1

\* the split of the claim: a segment with an "@", at its last "@"
C7_SplitAtLastAt(seg) ==
  LET at == CHOOSE i \in 1..Len(seg) : seg[i] = "@" /\ \A j \in (i + 1)..Len(seg) : seg[j] # "@"
  IN  ModuleVersion(SubSeq(seg, 1, at - 1), SubSeq(seg, at + 1, Len(seg)))

\* C7, as claimed: each segment with an "@" is split at its last "@", and the
\* token is that of the first segment whose split module.Check accepts.
C7_FirstSegmentSplitAtItsLastAt ==
  Extracted =>
    LET ok == {n \in 1..Len(Segments) :
                 /\ "@" \in Elems(Segments[n])
                 /\ Check(C7_SplitAtLastAt(Segments[n]).Path, C7_SplitAtLastAt(Segments[n]).Version)}
    IN  ok # {} => v = C7_SplitAtLastAt(Segments[Min(ok)])

\* the split of the pattern: within the first line of the segment that has an
\* "@", at the last "@" of that line
C7_SplitInLine(seg) ==
  LET at == CHOOSE i \in 1..Len(seg) :
              /\ seg[i] = "@"
              /\ \A j \in 1..(i - 1) : seg[j] = "@" => \A k \in j..i : seg[k] # "\n"
              /\ \A j \in (i + 1)..Len(seg) : seg[j] = "@" => \E k \in i..j : seg[k] = "\n"
      before == {j \in 1..(at - 1) : seg[j] = "\n"}
      after == {j \in (at + 1)..Len(seg) : seg[j] = "\n"}
      first == IF before = {} THEN 1 ELSE (CHOOSE j \in before : \A k \in before : k <= j) + 1
      last == IF after = {} THEN Len(seg) ELSE Min(after) - 1
  IN  ModuleVersion(SubSeq(seg, first, at - 1), SubSeq(seg, at + 1, last))

C7_Accepted ==
  {n \in 1..Len(Segments) :
     /\ "@" \in Elems(Segments[n])
     /\ Check(C7_SplitInLine(Segments[n]).Path, C7_SplitInLine(Segments[n]).Version)}

\* C7, amended: each trimmed segment with an "@" is split within its first line
\* that has an "@", at the last "@" of that line, into the module text before it
\* on that line and the version text after it on that line; the token is that
\* of the first segment whose split module.Check accepts, and later segments
\* are ignored.
C7_FirstSegmentSplitInItsFirstLineWithAt ==
  Extracted => (C7_Accepted # {} => v = C7_SplitInLine(Segments[Min(C7_Accepted)]))

\* The token comes from the first line of a segment of two lines with an "@"
\* each, and a later segment has an accepted split of its own.
C7_Witness ==
  /\ Extracted
  /\ \E n \in C7_Accepted :
       /\ n = Min(C7_Accepted)
       /\ "\n" \in Elems(Segments[n])
       /\ C7_SplitInLine(Segments[n]) # C7_SplitAtLastAt(Segments[n])
       /\ v = C7_SplitInLine(Segments[n])
       /\ \E m \in C7_Accepted : m > n

IdleMod ==
  /\ modFile = ""
  /\ files = [u \in URIs |-> [ok |-> TRUE, Version |-> FileVersion[u]]]
  /\ mthErr = Nil
  /\ tidyErr = Nil
  /\ diagnostics = <<>>
  /\ diags = <<>>
  /\ ret = NoRet


InitBug == InitBugVars /\ IdleMod /\ IdleLoc

NextBug ==
  \/ \E p \in Procs : CallReport(p)
  \/ \E p \in Procs : CallNotify(p)
  \/ \E p \in Procs : ReportLock(p)
  \/ \E p \in Procs : ReportExemplar(p)
  \/ \E p \in Procs : ReportSend(p)
  \/ \E p \in Procs : ReportClear(p)
  \/ \E p \in Procs : ReportUnlock(p)
  \/ \E p \in Procs : NotifyLock(p)
  \/ \E p \in Procs : NotifyAppend(p)
  \/ \E p \in Procs : NotifyUnlock(p)
  \/ \E c \in 1..Len(chans) : Recv(c)

\* A goroutine that is runnable is eventually scheduled; sync.Mutex hands the
\* lock to a waiter once the holder unlocks.
SpecBug == InitBug /\ [][NextBug]_vars /\ \A p \in Procs : WF_vars(StepBug(p))

InReport(p) == pc[p] \in {"report_lock", "report_exemplar", "report_send", "report_unlock"}

\* C10: each channel Notify returned is sent at most one bug, the first one
\* reported (in mutex order) after Notify registered the channel; the send made
\* under the mutex always finds room in the 1-buffered channel; and every
\* reporting call returns.
C10_OneBugPerChannel ==
  /\ [](\A c \in 1..Len(chans) :
          /\ Len(sentLog[c]) <= 1
          /\ sentLog[c] # <<>> => sentLog[c][1].id = regAt[c] + 1)
  /\ [](\A p \in Procs :
          (pc[p] = "report_send" /\ local[p].i <= Len(waiters))
             => Len(chans[waiters[local[p].i]]) < ChanCap)
  /\ \A p \in Procs : InReport(p) ~> (pc[p] = "idle")

\* A channel still holds its bug, unreceived, while a later report has completed.
C10_Witness ==
  \E c \in 1..Len(chans) :
    /\ Len(chans[c]) = 1
    /\ nbugs >= regAt[c] + 2
    /\ sentLog[c] # <<>>
    /\ \A p \in Procs : pc[p] = "idle"
====
